---------------------------- MODULE Spec2Model ----------------------------
(***************************************************************************)
(* Model of src/src/scripts/main.ts, the isServerStarting revision         *)
(* (lines 1-290): the status poller, the start-server trigger, the two     *)
(* polling timers and the DOM renderer of the server status page.          *)
(*                                                                         *)
(* One action per callback of the script: the two interval callbacks, the  *)
(* resolution of a status fetch, the resolution of a start fetch and the   *)
(* click on the start button.  Fetches are asynchronous: a request that    *)
(* was issued stays in flight until its response is handled, in any order. *)
(***************************************************************************)
EXTENDS Integers, Sequences, FiniteSets, TLC

VARIABLES
    isServerStarting,        \* main.ts:188
    statusCheckSubscription, \* main.ts:189, the timer the handle refers to
    detachedTimers,          \* running timers no variable refers to any more
    statusRequests,          \* status fetches in flight, per updateUI argument
    startRequests,           \* start fetches in flight
    dom,                     \* the elements the renderer writes
    startButtonIsFormControl,\* whether [data-start-button] is a <button>
    lastEvent,               \* history: the callback that ran last
    lastResolved,            \* history: outcome of the last status response
    lastRendered,            \* history: outcome of the last rendered response
    onlineSinceClick         \* history: whether, since the last accepted click, a status
                             \* response reported online, and if so with a 5s timer running

vars == <<isServerStarting, statusCheckSubscription, detachedTimers,
          statusRequests, startRequests, dom, startButtonIsFormControl,
          lastEvent, lastResolved, lastRendered, onlineSinceClick>>

---------------------------------------------------------------------------
(* Bounds of the model *)

\* most status fetches in flight at once
MaxStatusRequests == 3

\* most timers running plus start fetches in flight at once
MaxTimers == 2

---------------------------------------------------------------------------
(* The status payload, main.ts:25-33 *)

\* the fields of ServerStatusResponse the renderer reads
Payloads ==
    { [map |-> "surf_utopia", playerCount |-> 3, maxPlayers |-> 32, uptime |-> "2h"],
      [map |-> "surf_mesa",   playerCount |-> 0, maxPlayers |-> 32, uptime |-> "5m"],
      [map |-> "Unknown",     playerCount |-> 3, maxPlayers |-> 32, uptime |-> "2h"],
      [map |-> "loading",     playerCount |-> 0, maxPlayers |-> 32, uptime |-> "5m"],
      [map |-> "",            playerCount |-> 0, maxPlayers |-> 32, uptime |-> "5m"] }

\* the optional payload argument of updateServerState: absent, or one payload
NoPayload == << >>

Some(p) == << p >>

\* the JSON lookup in the data-map-images attribute of the .map element
MapImages ==
    [m \in {"surf_utopia", "default"} |->
        IF m = "surf_utopia" THEN "/maps/surf_utopia.jpg" ELSE "/maps/default.jpg"]

---------------------------------------------------------------------------
(* The renderer, main.ts:37-186 *)

\* updateMapDisplay(newMapName), main.ts:165-186
updateMapDisplay(d, newMapName) ==
    LET imageSrc == IF newMapName \in DOMAIN MapImages
                    THEN MapImages[newMapName]
                    ELSE MapImages["default"]
    IN  [d EXCEPT !.mapName = newMapName,
                  !.mapImageSrc = imageSrc,
                  !.mapImageAlt = newMapName]

\* updateConnectButton leaving the icon alone in the loading render
updateConnectButtonKeptWhileLoading(d, status) ==
    IF status = "loading"
    THEN d
    ELSE [d EXCEPT !.connectDisplay = IF status = "online" THEN "block" ELSE "none"]

\* updateConnectButton(status), main.ts:111-127
updateConnectButton(d, status) ==
    [d EXCEPT !.connectDisplay = IF status = "online" THEN "block" ELSE "none"]

\* updateStartButton(status), main.ts:129-163
updateStartButton(d, status) ==
    CASE status = "offline" ->
            [d EXCEPT !.buttonDisabled = FALSE,
                      !.buttonStatus = "offline",
                      !.buttonText = "Start Server"]
      [] status = "loading" ->
            [d EXCEPT !.buttonDisabled = TRUE,
                      !.buttonStatus = "loading",
                      !.buttonText = "Loading..."]
      [] status = "online" ->
            [d EXCEPT !.buttonDisabled = TRUE,
                      !.buttonStatus = "online",
                      !.buttonText = "Server Online"]

\* the template string of main.ts:88-90
PlayersText(payload) ==
    IF Len(payload) = 0
    THEN ToString(0) \o " / " \o ToString(0)
    ELSE ToString(payload[1].playerCount) \o " / " \o ToString(payload[1].maxPlayers)

\* UptimeText with the default left out of main.ts:94 (the uptime card is blank)
UptimeTextWithoutDefault(payload) ==
    IF Len(payload) = 0 THEN "" ELSE payload[1].uptime

\* payload?.uptime ?? 'Unknown', main.ts:94
UptimeText(payload) ==
    IF Len(payload) = 0 THEN "Unknown" ELSE payload[1].uptime

\* MapIsShown without the test for 'Unknown' of main.ts:100
MapIsShownForUnknown(payload) ==
    /\ Len(payload) # 0
    /\ payload[1].map # ""
    /\ payload[1].map # "loading"

\* the condition of main.ts:98-102
MapIsShown(payload) ==
    /\ Len(payload) # 0
    /\ payload[1].map # ""
    /\ payload[1].map # "Unknown"
    /\ payload[1].map # "loading"

\* the cards and the map of main.ts:82-105, for a status that is not loading
updateCards(d, status, payload) ==
    LET d1 == [d EXCEPT !.statusText = status,
                        !.playersText = PlayersText(payload),
                        !.uptimeText = UptimeText(payload)]
    IN  IF MapIsShown(payload) THEN updateMapDisplay(d1, payload[1].map) ELSE d1

\* updateServerState(status, payload), main.ts:37-109
updateServerState(d, status, payload) ==
    LET isLoading == (status = "loading")
        d1 == [d EXCEPT !.spinnerDisplay = IF isLoading THEN "block" ELSE "none",
                        !.cardDisplay = IF isLoading THEN "none" ELSE "block",
                        !.containerLoading = isLoading]
        d2 == IF ~isLoading THEN updateCards(d1, status, payload) ELSE d1
    IN  updateStartButton(updateConnectButton(d2, status), status)

\* the page as served, before the script has rendered anything
InitialDom ==
    [spinnerDisplay |-> "none", cardDisplay |-> "block", containerLoading |-> FALSE,
     statusText |-> "", playersText |-> "", uptimeText |-> "",
     mapName |-> "", mapImageSrc |-> "", mapImageAlt |-> "",
     connectDisplay |-> "none",
     buttonDisabled |-> FALSE, buttonStatus |-> "", buttonText |-> ""]

\* what the page shows as the server's status: the spinners, or the status pill
DisplayedStatus == IF dom.cardDisplay = "none" THEN "loading" ELSE dom.statusText


---------------------------------------------------------------------------
(* The timers, main.ts:189 and 226-243 *)

TimerKinds == {"normal", "startup"}

\* the running timers of one kind
Running(kind) ==
    (IF statusCheckSubscription = kind THEN 1 ELSE 0) + detachedTimers[kind]

ActiveTimers == Running("normal") + Running("startup")

StatusInFlight == statusRequests[TRUE] + statusRequests[FALSE]

\* statusCheckSubscription$ = ..., main.ts:227 and 233: the handle is overwritten
\* without an unsubscribe, so a timer it referred to keeps running
detachPrevious(detached, previous) ==
    IF previous \in TimerKinds
    THEN [detached EXCEPT ![previous] = @ + 1]
    ELSE detached

\* statusCheckSubscription$.unsubscribe(), main.ts:256-258
unsubscribe(subscription) == "closed"

---------------------------------------------------------------------------
(* checkServerStatus, main.ts:191-224 *)

\* main.ts:192-194, the render before the fetch
renderBeforeFetch(d, starting, updateUI) ==
    IF ~starting /\ updateUI THEN updateServerState(d, "loading", NoPayload) ELSE d

\* statusTap with the test of isServerStarting left out of main.ts:210
statusTapIgnoringFlag(d, starting, updateUI, online, data) ==
    IF online
    THEN [dom |-> updateServerState(d, "online", Some(data)), starting |-> FALSE]
    ELSE IF updateUI
         THEN [dom |-> updateServerState(d, "offline", Some(data)), starting |-> starting]
         ELSE [dom |-> d, starting |-> starting]

\* statusTap with updateServerState('online') called without the data, main.ts:207
statusTapWithoutData(d, starting, updateUI, online, data) ==
    IF online
    THEN [dom |-> updateServerState(d, "online", NoPayload), starting |-> FALSE]
    ELSE IF ~starting /\ updateUI
         THEN [dom |-> updateServerState(d, "offline", Some(data)), starting |-> starting]
         ELSE [dom |-> d, starting |-> starting]

\* the tap of main.ts:205-214 on a parsed response
statusTap(d, starting, updateUI, online, data) ==
    IF online
    THEN [dom |-> updateServerState(d, "online", Some(data)), starting |-> FALSE]
    ELSE IF ~starting /\ updateUI
         THEN [dom |-> updateServerState(d, "offline", Some(data)), starting |-> starting]
         ELSE [dom |-> d, starting |-> starting]

\* statusCatchError with the test of updateUI left out of main.ts:216
statusCatchErrorIgnoringUpdateUI(d, starting, updateUI) ==
    [dom |-> IF ~starting
             THEN updateServerState(d, "offline", NoPayload)
             ELSE d,
     starting |-> FALSE]

\* the catchError of main.ts:215-221: rejected fetch, non-ok response, bad JSON
statusCatchError(d, starting, updateUI) ==
    [dom |-> IF ~starting /\ updateUI
             THEN updateServerState(d, "offline", NoPayload)
             ELSE d,
     starting |-> FALSE]

\* the call checkServerStatus(updateUI): render, then one more fetch in flight
CheckServerStatus(updateUI) ==
    /\ dom' = renderBeforeFetch(dom, isServerStarting, updateUI)
    /\ statusRequests' = [statusRequests EXCEPT ![updateUI] = @ + 1]

\* whether a response is written to the page rather than suppressed
IsRendered(starting, updateUI, online) == online \/ (~starting /\ updateUI)

---------------------------------------------------------------------------
(* Init: the state after the script has run, main.ts:245-246 *)

Init ==
    /\ isServerStarting = FALSE
    /\ statusCheckSubscription = "normal"
    /\ detachedTimers = [k \in TimerKinds |-> 0]
    /\ statusRequests = [u \in BOOLEAN |-> IF u THEN 1 ELSE 0]
    /\ startRequests = 0
    /\ dom = renderBeforeFetch(InitialDom, FALSE, TRUE)
    /\ startButtonIsFormControl \in BOOLEAN
    /\ lastEvent = "load"
    /\ lastResolved = "none"
    /\ lastRendered = "none"
    /\ onlineSinceClick = "no"

---------------------------------------------------------------------------
(* The timer callbacks *)

\* a tick of a 60s timer, main.ts:227-229
NormalTick ==
    /\ Running("normal") > 0
    /\ StatusInFlight < MaxStatusRequests
    /\ CheckServerStatus(TRUE)
    /\ lastEvent' = "normalTick"
    /\ UNCHANGED <<isServerStarting, statusCheckSubscription, detachedTimers,
                   startRequests, startButtonIsFormControl, lastResolved,
                   lastRendered, onlineSinceClick>>

\* takeWhile with the predicate negated: the timer stops while the flag is set
startupCompletesWhileStarting(starting) == starting

\* takeWhile(() => isServerStarting, true), main.ts:236: the tick that finds the
\* flag cleared is the timer's last
startupCompletes(starting) == ~starting

\* a tick of the 5s timer the handle refers to, main.ts:233-242
StartupTick ==
    /\ statusCheckSubscription = "startup"
    /\ StatusInFlight < MaxStatusRequests
    /\ CheckServerStatus(FALSE)
    /\ IF startupCompletes(isServerStarting)
       THEN /\ statusCheckSubscription' = "normal"
            /\ lastEvent' = "startupComplete"
       ELSE /\ UNCHANGED statusCheckSubscription
            /\ lastEvent' = "startupTick"
    /\ UNCHANGED <<isServerStarting, detachedTimers, startRequests,
                   startButtonIsFormControl, lastResolved, lastRendered,
                   onlineSinceClick>>

\* a tick of a 5s timer the handle no longer refers to, main.ts:233-242
DetachedStartupTick ==
    /\ detachedTimers["startup"] > 0
    /\ StatusInFlight < MaxStatusRequests
    /\ CheckServerStatus(FALSE)
    /\ IF startupCompletes(isServerStarting)
       THEN /\ detachedTimers' =
                  detachPrevious([detachedTimers EXCEPT !["startup"] = @ - 1],
                                 statusCheckSubscription)
            /\ statusCheckSubscription' = "normal"
            /\ lastEvent' = "startupComplete"
       ELSE /\ UNCHANGED <<statusCheckSubscription, detachedTimers>>
            /\ lastEvent' = "startupTick"
    /\ UNCHANGED <<isServerStarting, startRequests, startButtonIsFormControl,
                   lastResolved, lastRendered, onlineSinceClick>>

---------------------------------------------------------------------------
(* The responses to a status fetch, main.ts:196-223 *)

\* an ok response whose JSON reports online = true
StatusOnline(updateUI, data) ==
    /\ statusRequests[updateUI] > 0
    /\ statusRequests' = [statusRequests EXCEPT ![updateUI] = @ - 1]
    /\ LET r == statusTap(dom, isServerStarting, updateUI, TRUE, data)
       IN  /\ dom' = r.dom
           /\ isServerStarting' = r.starting
    /\ lastEvent' = "statusOnline"
    /\ lastResolved' = "online"
    /\ lastRendered' = "online"
    /\ onlineSinceClick' = IF Running("startup") > 0 \/ onlineSinceClick = "duringStartup"
                         THEN "duringStartup" ELSE "beforeStartup"
    /\ UNCHANGED <<statusCheckSubscription, detachedTimers, startRequests,
                   startButtonIsFormControl>>

\* an ok response whose JSON reports online = false
StatusOffline(updateUI, data) ==
    /\ statusRequests[updateUI] > 0
    /\ statusRequests' = [statusRequests EXCEPT ![updateUI] = @ - 1]
    /\ LET r == statusTap(dom, isServerStarting, updateUI, FALSE, data)
       IN  /\ dom' = r.dom
           /\ isServerStarting' = r.starting
    /\ lastEvent' = "statusOffline"
    /\ lastResolved' = "offline"
    /\ lastRendered' = IF IsRendered(isServerStarting, updateUI, FALSE)
                       THEN "offline" ELSE lastRendered
    /\ UNCHANGED <<statusCheckSubscription, detachedTimers, startRequests,
                   startButtonIsFormControl, onlineSinceClick>>

\* a rejected fetch, a non-ok response or a body that is not JSON
StatusFailed(updateUI) ==
    /\ statusRequests[updateUI] > 0
    /\ statusRequests' = [statusRequests EXCEPT ![updateUI] = @ - 1]
    /\ LET r == statusCatchError(dom, isServerStarting, updateUI)
       IN  /\ dom' = r.dom
           /\ isServerStarting' = r.starting
    /\ lastEvent' = "statusFail"
    /\ lastResolved' = "offline"
    /\ lastRendered' = IF IsRendered(isServerStarting, updateUI, FALSE)
                       THEN "offline" ELSE lastRendered
    /\ UNCHANGED <<statusCheckSubscription, detachedTimers, startRequests,
                   startButtonIsFormControl, onlineSinceClick>>

---------------------------------------------------------------------------
(* The start button, main.ts:248-282 *)

\* Whether a click reaches the handler while button.disabled is true depends on
\* the page, which the script does not decide: a disabled <button> dispatches no
\* click; an element of another kind (main.ts:130-132 casts without checking), or
\* a click dispatched by script, does.  Init leaves it open.
ClickIsDispatched == ~(startButtonIsFormControl /\ dom.buttonDisabled)

\* the handler without the guard of main.ts:251
clickIsNeverIgnored(starting) == FALSE

\* if (isServerStarting) return, main.ts:251
clickIsIgnored(starting) == starting

\* the click handler, main.ts:250-281, up to the start fetch being issued
Click ==
    /\ ClickIsDispatched
    /\ IF clickIsIgnored(isServerStarting)
       THEN /\ lastEvent' = "clickIgnored"
            /\ UNCHANGED <<isServerStarting, dom, statusCheckSubscription,
                           startRequests, onlineSinceClick>>
       ELSE \* bound: timers running plus start fetches in flight stay <= MaxTimers
            /\ ActiveTimers + startRequests
                 - (IF statusCheckSubscription \in TimerKinds THEN 1 ELSE 0)
                 < MaxTimers
            /\ isServerStarting' = TRUE
            /\ dom' = updateServerState(dom, "loading", NoPayload)
            /\ statusCheckSubscription' = unsubscribe(statusCheckSubscription)
            /\ startRequests' = startRequests + 1
            /\ onlineSinceClick' = "no"
            /\ lastEvent' = "click"
    /\ UNCHANGED <<detachedTimers, statusRequests, startButtonIsFormControl,
                   lastResolved, lastRendered>>

\* the tap of main.ts:268-271: the start endpoint answered ok
StartSucceeded ==
    /\ startRequests > 0
    /\ startRequests' = startRequests - 1
    /\ detachedTimers' = detachPrevious(detachedTimers, statusCheckSubscription)
    /\ statusCheckSubscription' = "startup"
    /\ lastEvent' = "startOk"
    /\ UNCHANGED <<isServerStarting, statusRequests, dom, startButtonIsFormControl,
                   lastResolved, lastRendered, onlineSinceClick>>

\* StartFailed without the startNormalPolling() of main.ts:276
StartFailedWithoutPolling ==
    /\ startRequests > 0
    /\ startRequests' = startRequests - 1
    /\ isServerStarting' = FALSE
    /\ dom' = updateStartButton(dom, "offline")
    /\ lastEvent' = "startFail"
    /\ UNCHANGED <<statusCheckSubscription, detachedTimers, statusRequests,
                   startButtonIsFormControl, lastResolved, lastRendered,
                   onlineSinceClick>>

\* the catchError of main.ts:272-278: the start fetch was rejected or not ok
StartFailed ==
    /\ startRequests > 0
    /\ startRequests' = startRequests - 1
    /\ isServerStarting' = FALSE
    /\ dom' = updateStartButton(dom, "offline")
    /\ detachedTimers' = detachPrevious(detachedTimers, statusCheckSubscription)
    /\ statusCheckSubscription' = "normal"
    /\ lastEvent' = "startFail"
    /\ UNCHANGED <<statusRequests, startButtonIsFormControl, lastResolved,
                   lastRendered, onlineSinceClick>>

---------------------------------------------------------------------------

Tick == NormalTick \/ StartupTick \/ DetachedStartupTick

StatusResponse ==
    \E updateUI \in BOOLEAN :
        \/ \E data \in Payloads : StatusOnline(updateUI, data)
        \/ \E data \in Payloads : StatusOffline(updateUI, data)
        \/ StatusFailed(updateUI)

StartResponse == StartSucceeded \/ StartFailed

Next == Tick \/ StatusResponse \/ StartResponse \/ Click

Spec == Init /\ [][Next]_vars

\* the page whose start button is a <button>: no click while it is disabled
ButtonInit == Init /\ startButtonIsFormControl = TRUE

ButtonSpec == ButtonInit /\ [][Next]_vars

\* the page whose start element takes clicks at any time, which allows every
\* behaviour of the other page too; every fetch in flight resolves, and a timer
\* that is running time and again does tick
AnyClickInit == Init /\ startButtonIsFormControl = FALSE

LiveSpec ==
    /\ AnyClickInit /\ [][Next]_vars
    /\ WF_vars(StatusResponse)
    /\ WF_vars(StartResponse)
    /\ SF_vars(Tick)

---------------------------------------------------------------------------
(* Properties *)

TickEvents == {"normalTick", "startupTick", "startupComplete"}

StatusResponseEvents == {"statusOnline", "statusOffline", "statusFail"}

\* the page as updateServerState('loading') leaves it
ShowsLoading(d) ==
    /\ d.spinnerDisplay = "block"
    /\ d.cardDisplay = "none"
    /\ d.containerLoading
    /\ d.buttonDisabled
    /\ d.buttonStatus = "loading"
    /\ d.connectDisplay = "none"

\* the page as updateServerState('offline') leaves it
ShowsOffline(d) ==
    /\ d.spinnerDisplay = "none"
    /\ d.cardDisplay = "block"
    /\ d.statusText = "offline"
    /\ ~d.buttonDisabled
    /\ d.buttonText = "Start Server"

\* C1: in every reachable state at most one polling timer (60s or 5s) is
\* running, so whenever a timer is created every earlier one has been
\* cancelled or has completed.
C1_AtMostOneTimer == ActiveTimers <= 1

\* C2: whenever isServerStarting is true the page shows 'loading' (start button
\* disabled, connect icon hidden); and a tick or a status response handled while
\* the flag is true either leaves the page as it is or renders 'online' and
\* clears the flag in that same step.
C2_StartingShowsLoading ==
    [][ /\ isServerStarting' => ShowsLoading(dom')
        /\ (isServerStarting /\ lastEvent' \in TickEvents \cup StatusResponseEvents)
              => \/ dom' = dom
                 \/ /\ lastEvent' = "statusOnline"
                    /\ DisplayedStatus' = "online"
                    /\ ~isServerStarting' ]_vars

\* C2's case: a status response reporting offline was handled, and suppressed,
\* while the start sequence was in progress
C2_Witness == isServerStarting /\ lastEvent = "statusOffline"

\* C3: after any failed status fetch the page shows status 'offline' and the
\* player count '0 / 0', whoever issued the fetch and whatever isServerStarting
\* was when the failure was handled.
C3_FailedFetchShowsOffline ==
    lastEvent = "statusFail"
        => /\ DisplayedStatus = "offline"
           /\ dom.playersText = "0 / 0"

\* C4: after a failed start request isServerStarting is false, the whole page
\* is rendered 'offline' (status pill, spinners hidden, cards visible, start
\* button enabled and labelled 'Start Server') and a 60s timer is running.
C4_StartFailureRendersOffline ==
    lastEvent = "startFail"
        => /\ ~isServerStarting
           /\ ShowsOffline(dom)
           /\ Running("normal") >= 1

\* C5: a 5s timer completes, handing over to 60s polling, only after a status
\* response has reported online = true since the click that began the start
\* sequence; a failed status fetch does not end fast polling.
C5_FastPollingEndsOnlyAfterOnline ==
    lastEvent = "startupComplete" => onlineSinceClick # "no"

C7_ClickWhileStartingIsNoOp ==
    [][ (isServerStarting /\ lastEvent' \in {"click", "clickIgnored"})
          => UNCHANGED <<isServerStarting, dom, statusCheckSubscription,
                         detachedTimers, startRequests, statusRequests>> ]_vars

\* C7's case: the handler ran while a start sequence was in progress
C7_Witness == isServerStarting /\ lastEvent = "clickIgnored"

C9_OnlineEndsStartupPolling ==
    /\ lastEvent = "statusOnline"
          => (~isServerStarting /\ DisplayedStatus = "online")
    /\ (lastEvent = "startupComplete" /\ onlineSinceClick = "duringStartup")
          => (Running("normal") = 1 /\ Running("startup") = 0)

\* C10: an accepted click sets isServerStarting, renders 'loading', cancels the
\* polling timer and issues a start request; and as long as a start request is
\* in flight no polling timer is running.
C10_NoPollingWhileStartInFlight ==
    /\ lastEvent = "click"
          => /\ isServerStarting
             /\ ShowsLoading(dom)
             /\ statusCheckSubscription = "closed"
             /\ startRequests >= 1
    /\ startRequests > 0 => ActiveTimers = 0

\* C11: a status response reporting online = true, whatever isServerStarting
\* and updateUI are when it is handled, leaves the page showing status 'online',
\* the player count '<playerCount> / <maxPlayers>' and the uptime of that
\* response, the connect icon visible, the start button disabled and labelled
\* 'Server Online', and isServerStarting false.
C11_OnlineResponseIsRendered ==
    [][ \A updateUI \in BOOLEAN, data \in Payloads :
          StatusOnline(updateUI, data)
            => /\ DisplayedStatus' = "online"
               /\ dom'.spinnerDisplay = "none"
               /\ dom'.playersText =
                     ToString(data.playerCount) \o " / " \o ToString(data.maxPlayers)
               /\ dom'.uptimeText = data.uptime
               /\ dom'.connectDisplay = "block"
               /\ dom'.buttonDisabled
               /\ dom'.buttonText = "Server Online"
               /\ ~isServerStarting' ]_vars

\* C11's case: an online response was handled while a 5s timer was running,
\* and the page shows its player count and uptime
C11_Witness ==
    /\ lastEvent = "statusOnline"
    /\ onlineSinceClick = "duringStartup"
    /\ dom.playersText = "3 / 32"
    /\ dom.uptimeText = "2h"
    /\ dom.connectDisplay = "block"

\* the maps updateServerState does not display, main.ts:99-101
PlaceholderMaps == {"", "Unknown", "loading"}

\* C12: the displayed map name and image change only in a render of a status
\* response (status online or offline, never loading) whose payload carries a
\* map that is not empty, 'Unknown' or 'loading', and then they show that map;
\* every other step (loading renders, failed fetches, suppressed responses,
\* clicks, start responses) leaves the displayed map as it was.
C12_MapChangesOnlyForRealMap ==
    [][ <<dom'.mapName, dom'.mapImageSrc, dom'.mapImageAlt>>
            # <<dom.mapName, dom.mapImageSrc, dom.mapImageAlt>>
          => \E updateUI \in BOOLEAN, data \in Payloads :
                /\ data.map \notin PlaceholderMaps
                /\ \/ StatusOnline(updateUI, data)
                   \/ StatusOffline(updateUI, data) /\ updateUI /\ ~isServerStarting
                /\ DisplayedStatus' # "loading"
                /\ dom'.mapName = data.map
                /\ dom'.mapImageAlt = data.map ]_vars

\* C12's case: the response rendered last carried the map 'Unknown' (the only
\* payload with '3 / 32' besides surf_utopia), and the map shown before stays
C12_Witness ==
    /\ lastEvent = "statusOnline"
    /\ dom.playersText = "3 / 32"
    /\ dom.mapName = "surf_mesa"

\* C13 as claimed: when a status fetch issued with updateUI = true fails while
\* no start sequence is in progress, the page afterwards shows status
\* 'offline', player count '0 / 0' and the uptime text 'offline'.
C13_FailureShowsUptimeOffline ==
    [][ (StatusFailed(TRUE) /\ ~isServerStarting)
          => /\ DisplayedStatus' = "offline"
             /\ dom'.playersText = "0 / 0"
             /\ dom'.uptimeText = "offline" ]_vars

\* C13 as amended: in that case the page afterwards shows status 'offline',
\* player count '0 / 0' and the uptime text 'Unknown'.
C13_FailureShowsUptimeUnknown ==
    [][ (StatusFailed(TRUE) /\ ~isServerStarting)
          => /\ DisplayedStatus' = "offline"
             /\ dom'.playersText = "0 / 0"
             /\ dom'.uptimeText = "Unknown" ]_vars

\* C13's case: a failed fetch was rendered after the page had shown a
\* response's uptime
C13_Witness ==
    /\ lastEvent = "statusFail"
    /\ lastRendered = "offline"
    /\ DisplayedStatus = "offline"
    /\ dom.uptimeText = "Unknown"
    /\ dom.mapName # ""

\* C14: fast polling has no timeout.  While isServerStarting is true and a 5s
\* timer is running, a status response reporting online = false and a tick of
\* the 5s timer both leave the flag true, the page in the loading render with
\* the start button disabled and every 5s timer running, and the tick issues
\* one more status check; so the timer goes on ticking for any number of ticks.
C14_FastPollingHasNoTimeout ==
    [][ (/\ isServerStarting
         /\ Running("startup") > 0
         /\ \/ StartupTick
            \/ DetachedStartupTick
            \/ \E updateUI \in BOOLEAN, data \in Payloads :
                  StatusOffline(updateUI, data))
          => /\ isServerStarting'
             /\ ShowsLoading(dom')
             /\ Running("startup")' = Running("startup")
             /\ Running("normal")' = Running("normal")
             /\ (StartupTick \/ DetachedStartupTick)
                   => /\ statusRequests'[FALSE] = statusRequests[FALSE] + 1
                      /\ lastEvent' = "startupTick" ]_vars

\* C14's case: the 5s timer has ticked at least twice, the response handled
\* last reported offline or failed, and the start sequence is still in progress
C14_Witness ==
    /\ isServerStarting
    /\ lastEvent = "startupTick"
    /\ lastResolved = "offline"
    /\ statusRequests[FALSE] >= 2

\* C15: in every reachable state where the page shows status 'online', the
\* start button is disabled and labelled 'Server Online'; it is never enabled
\* with 'Start Server' while the pill shows online and the connect icon is
\* visible.
C15_OnlineMeansButtonDisabled ==
    DisplayedStatus = "online"
        => /\ dom.buttonDisabled
           /\ dom.buttonText = "Server Online"

\* C16: in every reachable state the connect icon is visible exactly when the
\* status last rendered by updateServerState (the one the page displays, as
\* only updateServerState writes the cards and the pill) is 'online'; and a
\* step that changes the icon's visibility is a render of another status,
\* never an ignored click, a 5s tick, a start response or a suppressed
\* status response (one that leaves the displayed status as it was).
C16_IconFollowsRenderedStatus ==
    [][ /\ dom.connectDisplay = "block" <=> DisplayedStatus = "online"
        /\ dom'.connectDisplay = "block" <=> DisplayedStatus' = "online"
        /\ dom'.connectDisplay # dom.connectDisplay
              => /\ DisplayedStatus' # DisplayedStatus
                 /\ lastEvent' \notin {"clickIgnored", "startupTick", "startupComplete",
                                       "startOk", "startFail"} ]_vars

\* C16's case: the icon is visible after a start request failed, which
\* re-enabled the button without touching the icon
C16_Witness ==
    /\ lastEvent = "startFail"
    /\ dom.connectDisplay = "block"
    /\ ~dom.buttonDisabled

=============================================================================
